---------------------------- MODULE Spec2Model ----------------------------
(* pnps-utils: the `parse` command (src/src/parse.rs) and the `calc`       *)
(* command (src/src/calc.rs) as state machines.                            *)
EXTENDS Integers, Sequences, FiniteSets, TLC

VARIABLES
    pc,            \* position of parse_command
    out_file,      \* the output file: "none", "empty" (created), "written"
    annotations,   \* HashMap<Uuid, Annotation>: uid -> [seq_id, start, end]
    fasta_records, \* HashMap<String, SequenceRecord>: the sequence ids present
    sample_info,   \* SampleInfo: vcf column -> sample id (of (id, depth file))
    min_cov,       \* options.min_coverage
    pnps_list,     \* Vec<PnPs> returned by prepare_annotations
    pnps_map,      \* SamplePnPs: sample id -> (uid -> PnPs)
    pnps_init,     \* the SamplePnPs value add_depth_sample_data returned
    count,         \* parse_vcf_file: count
    skipped_dp,    \* parse_vcf_file: skipped_dp
    skipped_qual,  \* parse_vcf_file: skipped_qual
    skipped_indel, \* parse_vcf_file: skipped_indel
    rec,           \* parse_vcf_file: the record of the current loop iteration
    n_inside,      \* history: per (sample id, uid), records inside the uid's
                   \* interval that carry a call of that sample
    cpc,           \* position of calc_command
    gene_map,      \* GeneMap: uid -> Vec<String>
    taxon_map,     \* TaxonMap: uid -> u32
    lineage_map,   \* LineageMap: uid -> String
    taxonomy,      \* Taxonomy: the taxon ids whose lineage string resolves
    result_type,   \* ResultType: "pNpS", "pN", "pS"
    calc_pnps_map, \* calc_command: pnps_map, deserialized from the input file
    grouped_pnps,  \* SampleGroupPnPs: sample id -> (GroupKey -> GroupPnPs)
    out_header,    \* the sample columns of the header record
    out_rows,      \* the records written after the header
    n_passed,      \* history: the records that passed the three filters
    cfg_pc,        \* position of config_command
    ouput_file,    \* config_command: the output: "none", "stdout", or the
                   \* file's content "empty", "partial", "written"
    depth_files,   \* options.depth_files
    vcf_samples,   \* config_command: vcf_samples
    sample_ids,    \* config_command: sample_ids
    config_lines,  \* the lines written after the header
    bail_msg       \* the two counts the bail! message names

parse_vars == <<pc, out_file, annotations, fasta_records, sample_info, min_cov,
                pnps_list, pnps_map, pnps_init, count, skipped_dp, skipped_qual,
                skipped_indel, rec, n_inside, n_passed>>

calc_vars == <<cpc, gene_map, taxon_map, lineage_map, taxonomy, result_type,
               calc_pnps_map, grouped_pnps, out_header, out_rows>>

config_vars == <<cfg_pc, ouput_file, depth_files, vcf_samples, sample_ids,
                 config_lines, bail_msg>>

vars == <<parse_vars, calc_vars, config_vars>>

-----------------------------------------------------------------------------
(* Bounds and input domains                                                *)

MaxRecords == 2          \* records in the variant stream

UIDs == {"u1", "u2"}
SeqIds == {"s1", "s2"}
VcfColumns == {"c1", "c2"}
SampleIds == {"A", "B"}
Positions == {1, 2}
Alts == {"T", "N"}

min_depth == 4           \* options.min_depth, its default
min_qual == 30           \* options.min_qual, its default
min_coverage == 4        \* options.min_coverage, its default

NoRecord == [chrom |-> "", pos |-> 0, dp |-> 0, qual |-> 0, indel |-> FALSE,
             ref_len |-> 0, alt |-> "", calls |-> {}]

\* the fields the filters read, and the fields read after them
FilterFields == [dp : {min_depth - 1, min_depth},
                 qual : {min_qual - 1, min_qual},
                 indel : BOOLEAN, ref_len : {1, 2}]
LocusFields == [chrom : SeqIds, pos : Positions, alt : Alts,
                calls : SUBSET VcfColumns]

VcfRecord(f, l) ==
    [chrom |-> l.chrom, pos |-> l.pos, dp |-> f.dp, qual |-> f.qual,
     indel |-> f.indel, ref_len |-> f.ref_len, alt |-> l.alt, calls |-> l.calls]

\* a finite map with a chosen domain
Maps(D, R) == UNION {[S -> R] : S \in SUBSET D}

Put(f, k, v) == [x \in DOMAIN f \cup {k} |-> IF x = k THEN v ELSE f[x]]

Perms(S) == {p \in [1..Cardinality(S) -> S] : \A x \in S : \E i \in DOMAIN p : p[i] = x}

\* the CDS features of a GFF file. Uids and sequence ids are arbitrary labels:
\* up to renaming, a file with one CDS holds u1, and u1 lies on s1
AnnotationSets ==
    {a \in Maps(UIDs, [seq_id : SeqIds, start : {1, 2}, end : {3}]) :
        /\ "u2" \in DOMAIN a => "u1" \in DOMAIN a
        /\ "u1" \in DOMAIN a => a["u1"].seq_id = "s1"}
\* a depth file: sequence id -> coverage, around the threshold
DepthFiles == Maps(SeqIds, {min_coverage - 1, min_coverage})
\* each vcf column has a depth file of its own, named after the column.
\* Columns and sample ids are labels too: up to renaming, a config with one
\* line names column c1, and the first sample id a config uses is A
SampleInfos ==
    {i \in Maps(VcfColumns, SampleIds) :
        /\ "c2" \in DOMAIN i => "c1" \in DOMAIN i
        /\ "c1" \in DOMAIN i => i["c1"] = "A"}

-----------------------------------------------------------------------------
(* External collaborators (bio_rascal), by their contract                  *)

\* Annotation::contains, on the half-open interval [start, end)
contains(a, pos) == a.start <= pos /\ pos < a.end

\* Annotation::get_exp_syn: expected counts grow with the CDS length
get_exp_syn(a) == <<a.end - a.start, 2 * (a.end - a.start)>>

\* Annotation::is_syn: an ambiguous alternate base cannot be classified;
\* otherwise the codon position decides
is_syn(a, pos, alt) ==
    IF alt = "N" THEN "err"
    ELSE IF (pos - a.start) % 2 = 1 THEN "syn" ELSE "nonsyn"

\* Depth::coverage_at over the annotation's interval
coverage_at(depth, a) == depth

\* VcfRecord::get_sample_snps
get_sample_snps(r) == {<<c, r.alt>> : c \in r.calls}

-----------------------------------------------------------------------------
(* parse.rs                                                                *)

PnPs(uid, exp_syn, exp_nonsyn, coverage) ==
    [uid |-> uid, exp_syn |-> exp_syn, exp_nonsyn |-> exp_nonsyn,
     syn |-> 0, nonsyn |-> 0, coverage |-> coverage]

\* prepare_annotations with the bail! of line 79 replaced by skipping the
\* annotation
prepare_annotations_lenient(anns, fasta) ==
    [ok |-> TRUE,
     list |-> {PnPs(u, get_exp_syn(anns[u])[1], get_exp_syn(anns[u])[2], 0) :
                  u \in {x \in DOMAIN anns : anns[x].seq_id \in fasta}}]

\* prepare_annotations: Err on the first annotation without a sequence
prepare_annotations(anns, fasta) ==
    IF \E u \in DOMAIN anns : anns[u].seq_id \notin fasta
    THEN [ok |-> FALSE, list |-> {}]
    ELSE [ok |-> TRUE,
          list |-> {PnPs(u, get_exp_syn(anns[u])[1], get_exp_syn(anns[u])[2], 0) :
                       u \in DOMAIN anns}]

\* the coverage prepare_sample_pnps stores for annotation a
sample_coverage(dm, a) ==
    IF a.seq_id \in DOMAIN dm THEN coverage_at(dm[a.seq_id], a) ELSE 0

\* prepare_sample_pnps without the test of line 121
prepare_sample_pnps_nofilter(pnps_base, dm, anns, mc) ==
    [u \in {p.uid : p \in pnps_base} |->
        LET p == CHOOSE q \in pnps_base : q.uid = u
        IN  PnPs(u, p.exp_syn, p.exp_nonsyn, sample_coverage(dm, anns[u]))]

\* prepare_sample_pnps: an entry per annotation with coverage >= min_cov
prepare_sample_pnps(pnps_base, dm, anns, mc) ==
    [u \in {p.uid : p \in {q \in pnps_base :
                              sample_coverage(dm, anns[q.uid]) >= mc}} |->
        LET p == CHOOSE q \in pnps_base : q.uid = u
        IN  PnPs(u, p.exp_syn, p.exp_nonsyn, sample_coverage(dm, anns[u]))]

\* add_depth_sample_data: the loop over sample_info in iteration order
\* `order`; max_by_key(..).unwrap() panics on an empty retained set
RECURSIVE add_depth_loop(_, _, _, _, _, _, _, _)
add_depth_loop(order, i, acc, info, dms, list, anns, mc) ==
    IF i > Len(order) THEN [ok |-> TRUE, map |-> acc]
    ELSE LET sp == prepare_sample_pnps(list, dms[order[i]], anns, mc)
         IN  IF DOMAIN sp = {}
             THEN [ok |-> FALSE, map |-> acc]
             ELSE add_depth_loop(order, i + 1, Put(acc, info[order[i]], sp),
                                 info, dms, list, anns, mc)

\* dms: the content read_depth_file returns for each column's depth file
add_depth_sample_data(order, info, dms, list, anns, mc) ==
    add_depth_loop(order, 1, <<>>, info, dms, list, anns, mc)

\* the filters without the test on the length of the reference allele
skip_reason_noreflen(r) ==
    IF r.dp < min_depth THEN "dp"
    ELSE IF r.qual < min_qual THEN "qual"
    ELSE IF r.indel THEN "indel"
    ELSE "none"

\* the filters with the quality test ahead of the depth test
skip_reason_qualfirst(r) ==
    IF r.qual < min_qual THEN "qual"
    ELSE IF r.dp < min_depth THEN "dp"
    ELSE IF r.indel \/ r.ref_len > 1 THEN "indel"
    ELSE "none"

\* the three filters of parse_vcf_file, in the order of the if/else-if chain
skip_reason(r) ==
    IF r.dp < min_depth THEN "dp"
    ELSE IF r.qual < min_qual THEN "qual"
    ELSE IF r.indel \/ r.ref_len > 1 THEN "indel"
    ELSE "none"

\* the (sample id, uid) pairs one call of the record reaches, each with the
\* outcome of is_syn: annotations on the record's sequence that contain its
\* position and whose sequence data is present, for a known vcf column
hits(r, anns, fasta, info) ==
    {<<info[c[1]], u, is_syn(anns[u], r.pos, c[2]), c[1]>> :
        c \in {d \in get_sample_snps(r) : d[1] \in DOMAIN info},
        u \in {x \in DOMAIN anns : /\ anns[x].seq_id = r.chrom
                                   /\ contains(anns[x], r.pos)
                                   /\ anns[x].seq_id \in fasta}}

\* the match of lines 220-231 also writing the coverage of a counted entry
bump_clearing_coverage(e, s, u, hs) ==
    LET n_syn == Cardinality({h \in hs : h[1] = s /\ h[2] = u /\ h[3] = "syn"})
        n_non == Cardinality({h \in hs : h[1] = s /\ h[2] = u /\ h[3] = "nonsyn"})
    IN  [e EXCEPT !.syn = @ + n_syn, !.nonsyn = @ + n_non,
                  !.coverage = IF n_syn + n_non > 0 THEN 0 ELSE @]

\* the match of lines 220-231 with the Err arm counting as nonsynonymous
bump_err_as_nonsyn(e, s, u, hs) ==
    LET n_syn == Cardinality({h \in hs : h[1] = s /\ h[2] = u /\ h[3] = "syn"})
        n_non == Cardinality({h \in hs : h[1] = s /\ h[2] = u /\ h[3] # "syn"})
    IN  [e EXCEPT !.syn = @ + n_syn, !.nonsyn = @ + n_non]

\* the counters of entry e = map[s][u] after the calls of the record:
\* one increment per call that is_syn classified
bump(e, s, u, hs) ==
    LET n_syn == Cardinality({h \in hs : h[1] = s /\ h[2] = u /\ h[3] = "syn"})
        n_non == Cardinality({h \in hs : h[1] = s /\ h[2] = u /\ h[3] = "nonsyn"})
    IN  [e EXCEPT !.syn = @ + n_syn, !.nonsyn = @ + n_non]

\* an entry()/or_insert() in place of get_mut(): a call reaching a pair
\* absent from the table creates it
classify_inserting(map, hs) ==
    LET ss == DOMAIN map \cup {h[1] : h \in hs}
        us(s) == (IF s \in DOMAIN map THEN DOMAIN map[s] ELSE {})
                     \cup {h[2] : h \in {g \in hs : g[1] = s}}
    IN  [s \in ss |-> [u \in us(s) |->
            bump(IF s \in DOMAIN map /\ u \in DOMAIN map[s]
                 THEN map[s][u] ELSE PnPs(u, 0, 0, 0), s, u, hs)]]

\* lines 208-235: get_mut on the sample, get_mut on the uid, then the match
classify(map, hs) ==
    [s \in DOMAIN map |-> [u \in DOMAIN map[s] |-> bump(map[s][u], s, u, hs)]]

\* lines 187-237: the body of `for record in vcf_reader` on the table
process_record(map, r, anns, fasta, info) ==
    IF skip_reason(r) # "none" THEN map
    ELSE classify(map, hits(r, anns, fasta, info))

\* history: records inside the interval of u that carry a call of sample s
inside(r, s, u, anns, info) ==
    /\ u \in DOMAIN anns
    /\ anns[u].seq_id = r.chrom
    /\ contains(anns[u], r.pos)
    /\ \E c \in r.calls : c \in DOMAIN info /\ info[c] = s

-----------------------------------------------------------------------------
(* parse_command                                                            *)

ParseInit ==
    /\ pc = "start"
    /\ out_file = "none"
    /\ annotations = <<>>
    /\ fasta_records = {}
    /\ sample_info = <<>>
    /\ min_cov = min_coverage
    /\ pnps_list = {}
    /\ pnps_map = <<>>
    /\ pnps_init = <<>>
    /\ count = 0
    /\ skipped_dp = 0
    /\ skipped_qual = 0
    /\ skipped_indel = 0
    /\ rec = NoRecord
    /\ n_inside = [s \in SampleIds |-> [u \in UIDs |-> 0]]
    /\ n_passed = 0

\* lines 248-251: File::create
CreateOutput ==
    /\ pc = "start"
    /\ \/ pc' = "created" /\ out_file' = "empty"
       \/ pc' = "error" /\ out_file' = "none"
    /\ UNCHANGED <<annotations, fasta_records, sample_info, min_cov, pnps_list,
                   pnps_map, pnps_init, count, skipped_dp, skipped_qual,
                   skipped_indel, rec, n_inside, n_passed>>
    /\ UNCHANGED <<calc_vars, config_vars>>

\* lines 256-261: read_gff_file, read_config_file, read_fasta_file
ReadInputs ==
    /\ pc = "created"
    /\ \E anns \in AnnotationSets, info \in SampleInfos,
          fasta \in SUBSET SeqIds :
          /\ annotations' = anns
          /\ sample_info' = info
          /\ fasta_records' = fasta
    /\ pc' = "read"
    /\ UNCHANGED <<out_file, min_cov, pnps_list, pnps_map, pnps_init, count, skipped_dp,
                   skipped_qual, skipped_indel, rec, n_inside, n_passed>>
    /\ UNCHANGED <<calc_vars, config_vars>>

\* a `?` of lines 256-260: an unreadable file, a config line with < 3 fields
ReadInputsError ==
    /\ pc = "created"
    /\ pc' = "error"
    /\ UNCHANGED <<out_file, annotations, fasta_records, sample_info, min_cov,
                   pnps_list, pnps_map, pnps_init, count, skipped_dp,
                   skipped_qual, skipped_indel, rec, n_inside, n_passed>>
    /\ UNCHANGED <<calc_vars, config_vars>>

\* line 262
PrepareAnnotations ==
    /\ pc = "read"
    /\ LET r == prepare_annotations(annotations, fasta_records)
       IN  /\ pc' = IF r.ok THEN "prepared" ELSE "error"
           /\ pnps_list' = r.list
    /\ UNCHANGED <<out_file, annotations, fasta_records, sample_info, min_cov,
                   pnps_map, pnps_init, count, skipped_dp, skipped_qual,
                   skipped_indel, rec, n_inside, n_passed>>
    /\ UNCHANGED <<calc_vars, config_vars>>

\* lines 264-265
AddDepthSampleData ==
    /\ pc = "prepared"
    /\ \E order \in Perms(DOMAIN sample_info),
          dms \in [DOMAIN sample_info -> DepthFiles] :
          LET r == add_depth_sample_data(order, sample_info, dms, pnps_list,
                                         annotations, min_cov)
          IN  /\ pc' = IF r.ok THEN "vcf" ELSE "panic"
              /\ pnps_map' = IF r.ok THEN r.map ELSE <<>>
              /\ pnps_init' = IF r.ok THEN r.map ELSE <<>>
    /\ UNCHANGED <<out_file, annotations, fasta_records, sample_info, min_cov,
                   pnps_list, count, skipped_dp, skipped_qual, skipped_indel,
                   rec, n_inside, n_passed>>
    /\ UNCHANGED <<calc_vars, config_vars>>

\* line 102, propagated by the `?` of line 146: a depth file cannot be read
DepthFileError ==
    /\ pc = "prepared"
    /\ DOMAIN sample_info # {}
    /\ pc' = "error"
    /\ UNCHANGED <<out_file, annotations, fasta_records, sample_info, min_cov,
                   pnps_list, pnps_map, pnps_init, count, skipped_dp,
                   skipped_qual, skipped_indel, rec, n_inside, n_passed>>
    /\ UNCHANGED <<calc_vars, config_vars>>

\* line 178: VcfReader::new fails
VcfOpenError ==
    /\ pc = "vcf"
    /\ count = 0
    /\ pc' = "error"
    /\ UNCHANGED <<out_file, annotations, fasta_records, sample_info, min_cov,
                   pnps_list, pnps_map, pnps_init, count, skipped_dp,
                   skipped_qual, skipped_indel, rec, n_inside, n_passed>>
    /\ UNCHANGED <<calc_vars, config_vars>>

\* lines 187-237: one iteration of `for record in vcf_reader`. A skipped
\* record is dropped at `continue`, before its chrom, pos and samples are
\* read: rec keeps those fields only for a record that passed the filters
ReadVcfRecord ==
    /\ pc = "vcf"
    /\ count < MaxRecords
    /\ \E f \in FilterFields :
          /\ count' = count + 1
          /\ skipped_dp' = skipped_dp + (IF skip_reason(f) = "dp" THEN 1 ELSE 0)
          /\ skipped_qual' = skipped_qual + (IF skip_reason(f) = "qual" THEN 1 ELSE 0)
          /\ skipped_indel' = skipped_indel + (IF skip_reason(f) = "indel" THEN 1 ELSE 0)
          /\ IF skip_reason(f) # "none"
             THEN /\ rec' = VcfRecord(f, NoRecord)
                  /\ pnps_map' = process_record(pnps_map, VcfRecord(f, NoRecord),
                             annotations, fasta_records, sample_info)
                  /\ UNCHANGED <<n_inside, n_passed>>
             ELSE \E l \in LocusFields :
                  LET r == VcfRecord(f, l)
                  IN  /\ rec' = r
                      /\ pnps_map' = process_record(pnps_map, r, annotations,
                             fasta_records, sample_info)
                      /\ n_passed' = n_passed + 1
                      /\ n_inside' = [s \in SampleIds |-> [u \in UIDs |->
                             n_inside[s][u] +
                             (IF inside(r, s, u, annotations, sample_info)
                              THEN 1 ELSE 0)]]
    /\ UNCHANGED <<pc, out_file, annotations, fasta_records, sample_info, min_cov,
                   pnps_list, pnps_init>>
    /\ UNCHANGED <<calc_vars, config_vars>>

\* lines 239-244 and 276: the stream ends (the loop variable goes out of
\* scope), parse_vcf_file returns and to_writer serializes pnps_map
Serialize ==
    /\ pc = "vcf"
    /\ pc' = "done"
    /\ out_file' = "written"
    /\ rec' = NoRecord
    /\ UNCHANGED <<annotations, fasta_records, sample_info, min_cov, pnps_list,
                   pnps_map, pnps_init, count, skipped_dp, skipped_qual,
                   skipped_indel, n_inside, n_passed>>
    /\ UNCHANGED <<calc_vars, config_vars>>

\* line 276: to_writer fails; what it wrote before stays in the file. The
\* locals of parse_command are dropped with the error
SerializeError ==
    /\ pc = "vcf"
    /\ pc' = "error"
    /\ out_file' \in {"empty", "partial"}
    /\ rec' = NoRecord
    /\ pnps_map' = <<>>
    /\ pnps_init' = <<>>
    /\ count' = 0
    /\ skipped_dp' = 0
    /\ skipped_qual' = 0
    /\ skipped_indel' = 0
    /\ n_passed' = 0
    /\ n_inside' = [s \in SampleIds |-> [u \in UIDs |-> 0]]
    /\ UNCHANGED <<annotations, fasta_records, sample_info, min_cov, pnps_list>>
    /\ UNCHANGED <<calc_vars, config_vars>>

-----------------------------------------------------------------------------
(* calc.rs: values                                                         *)

GeneLists == {<<"g1">>, <<"g1", "g2">>, <<"g1", "g1">>}
TaxonIds == {0, 7}
Lineages == {"Bacteria"}
ResultTypes == {"pNpS", "pN", "pS"}
Counts == {0, 1}

\* Uuid::to_string
to_string(uid) == CASE uid = "u1" -> "uuid:u1" [] uid = "u2" -> "uuid:u2"

\* the expected counts a parse run stores for a uid (get_exp_syn of its CDS)
DocExp(uid) == CASE uid = "u1" -> <<1, 2>> [] uid = "u2" -> <<2, 4>>

\* the documents of the input file: sample id -> (uid -> PnPs)
DocRecords(uid) ==
    {[uid |-> uid, exp_syn |-> DocExp(uid)[1], exp_nonsyn |-> DocExp(uid)[2],
      syn |-> c[1], nonsyn |-> c[2], coverage |-> min_coverage] :
        c \in Counts \X Counts}
DocTables ==
    UNION {{t \in [S -> UNION {DocRecords(u) : u \in S}] :
               \A u \in S : t[u].uid = u} : S \in SUBSET UIDs}
\* the documents explored: the second sample tracks at most the first feature
Documents ==
    {d \in Maps(SampleIds, DocTables) :
        "B" \in DOMAIN d => "u2" \notin DOMAIN d["B"]}

\* the samples of a document in the order of the file; A labels the sample
\* the file lists first
document_order(map) ==
    IF DOMAIN map = {"A", "B"} THEN <<"A", "B">>
    ELSE IF DOMAIN map = {"A"} THEN <<"A">>
    ELSE IF DOMAIN map = {"B"} THEN <<"B">>
    ELSE <<>>

\* an f64 by its IEEE-754 class; a normal value is the fraction n/d in lowest
\* terms (the counts are small: no subnormal or negative value arises)
RECURSIVE gcd(_, _)
gcd(a, b) == IF b = 0 THEN a ELSE gcd(b, a % b)

NaN == [k |-> "nan", n |-> 0, d |-> 0]
Inf == [k |-> "inf", n |-> 0, d |-> 0]
Zero == [k |-> "zero", n |-> 0, d |-> 0]
Normal(n, d) == [k |-> "normal", n |-> n \div gcd(n, d), d |-> d \div gcd(n, d)]

\* n as f64 / d as f64
ratio(n, d) ==
    IF d = 0 THEN (IF n = 0 THEN NaN ELSE Inf)
    ELSE IF n = 0 THEN Zero ELSE Normal(n, d)

\* x / y on f64
fdiv(x, y) ==
    IF x.k = "nan" \/ y.k = "nan" THEN NaN
    ELSE IF x.k = "inf" THEN (IF y.k = "inf" THEN NaN ELSE Inf)
    ELSE IF x.k = "zero" THEN (IF y.k = "zero" THEN NaN ELSE Zero)
    ELSE IF y.k = "zero" THEN Inf
    ELSE IF y.k = "inf" THEN Zero
    ELSE Normal(x.n * y.d, x.d * y.n)

\* f64::is_normal
is_normal(x) == x.k = "normal"

\* f64::to_string: "NaN", "inf", "0", or the decimal text of n/d
f64_to_string(x) ==
    CASE x.k = "nan" -> <<"NaN", 0, 0>>
      [] x.k = "inf" -> <<"inf", 0, 0>>
      [] x.k = "zero" -> <<"0", 0, 0>>
      [] x.k = "normal" -> <<"dec", x.n, x.d>>

\* CalculatePnPs for one PnPs: pN = nonsyn / exp_nonsyn, pS = syn / exp_syn
get_pn(p) == ratio(p.nonsyn, p.exp_nonsyn)
get_ps(p) == ratio(p.syn, p.exp_syn)
get_pnps(p) == fdiv(get_pn(p), get_ps(p))

\* the match on result_type
selected(p, rt) ==
    CASE rt = "pNpS" -> get_pnps(p)
      [] rt = "pN" -> get_pn(p)
      [] rt = "pS" -> get_ps(p)

\* CalculatePnPs for a GroupPnPs: the counts of the member records are summed,
\* each as often as the member list holds it. g.pnps: uid -> multiplicity,
\* references into the sample's table
RECURSIVE group_sum(_, _, _)
group_sum(table, members, todo) ==
    IF todo = {} THEN [exp_syn |-> 0, exp_nonsyn |-> 0, syn |-> 0, nonsyn |-> 0]
    ELSE LET u == CHOOSE x \in todo : TRUE
             r == group_sum(table, members, todo \ {u})
         IN  [exp_syn |-> r.exp_syn + members[u] * table[u].exp_syn,
              exp_nonsyn |-> r.exp_nonsyn + members[u] * table[u].exp_nonsyn,
              syn |-> r.syn + members[u] * table[u].syn,
              nonsyn |-> r.nonsyn + members[u] * table[u].nonsyn]

group_selected(g, table, rt) ==
    selected(group_sum(table, g.pnps, DOMAIN g.pnps), rt)

-----------------------------------------------------------------------------
(* calc.rs: grouping and output                                            *)

\* lines 38-41, with the fallback to the gene id "" in place of the uid text
gene_ids_blank(uid, gm) ==
    IF uid \in DOMAIN gm THEN gm[uid] ELSE <<"">>

\* lines 38-41
gene_ids(uid, gm) ==
    IF uid \in DOMAIN gm THEN gm[uid] ELSE <<to_string(uid)>>

\* lines 42-45
taxon_id(uid, tm) == IF uid \in DOMAIN tm THEN tm[uid] ELSE 0

\* lines 46-49
taxon_lineage(uid, lm) == IF uid \in DOMAIN lm THEN lm[uid] ELSE ""

\* line 51 taking only the first gene id
fan_out_first(ids) == <<ids[1]>>

\* line 51: `for gene_id in gene_ids`
fan_out(ids) == ids

\* how often lines 51-62 push the record of uid into the group of key
pushes(uid, key, gm, tm, lm) ==
    IF taxon_id(uid, tm) = key[2] /\ taxon_lineage(uid, lm) = key[3]
    THEN Cardinality({i \in DOMAIN fan_out(gene_ids(uid, gm)) :
                         fan_out(gene_ids(uid, gm))[i] = key[1]})
    ELSE 0

\* lines 34-63: the sample_map of one sample
sample_groups(table, gm, tm, lm) ==
    LET keys == UNION {{<<fan_out(gene_ids(u, gm))[i], taxon_id(u, tm),
                           taxon_lineage(u, lm)>> :
                             i \in DOMAIN fan_out(gene_ids(u, gm))} :
                          u \in DOMAIN table}
    IN  [k \in {x \in keys : \E u \in DOMAIN table : pushes(u, x, gm, tm, lm) > 0} |->
            [gene_id |-> k[1], taxon_id |-> k[2], taxon_lineage |-> k[3],
             pnps |-> [u \in {x \in DOMAIN table : pushes(x, k, gm, tm, lm) > 0} |->
                          pushes(u, k, gm, tm, lm)]]]

\* lines 26-68
group_pnps(map, gm, tm, lm) ==
    [s \in DOMAIN map |-> sample_groups(map[s], gm, tm, lm)]

\* Taxonomy::get_taxon_lineage_string
get_taxon_lineage_string(t) ==
    CASE t = 0 -> "root" [] t = 7 -> "cellular organisms;Bacteria"

\* lines 174-185 of write_output: the values of the row of uid
uid_values(map, order, uid, rt) ==
    [i \in 1..Len(order) |->
        IF uid \in DOMAIN map[order[i]]
        THEN selected(map[order[i]][uid], rt) ELSE NaN]

\* lines 115-126 of write_grouped_output: the values of the row of key
group_values(groups, map, order, key, rt) ==
    [i \in 1..Len(order) |->
        IF key \in DOMAIN groups[order[i]]
        THEN group_selected(groups[order[i]][key], map[order[i]], rt) ELSE NaN]

\* lines 129 and 188: at least one normal value
row_kept(values) == \E i \in DOMAIN values : is_normal(values[i])

cells_of(values) == [i \in DOMAIN values |-> f64_to_string(values[i])]

\* lines 142-199; order: the iteration order of pnps_map
write_output(map, order, rt) ==
    [header |-> order,
     rows |-> {[key |-> <<to_string(u)>>, lineage |-> "",
                cells |-> cells_of(uid_values(map, order, u, rt))] :
                  u \in {x \in UNION {DOMAIN map[s] : s \in DOMAIN map} :
                            row_kept(uid_values(map, order, x, rt))}}]

\* line 104-109: the `?` on get_taxon_lineage_string ends the loop
lineage_resolves(key, tx) == key[3] # "" \/ key[2] \in tx

\* lines 100-135. non_null_index is iterated in an arbitrary order and the loop
\* ends at the first key whose lineage does not resolve: handled is the set of
\* keys before that one (every key when all resolve)
grouped_rows(groups, map, order, handled, rt) ==
    {[key |-> k,
      lineage |-> IF k[3] = "" THEN get_taxon_lineage_string(k[2]) ELSE k[3],
      cells |-> cells_of(group_values(groups, map, order, k, rt))] :
        k \in {x \in handled : row_kept(group_values(groups, map, order, x, rt))}}

group_keys(groups) == UNION {DOMAIN groups[s] : s \in DOMAIN groups}

\* the sets of keys the loop can have handled when it ends
handled_sets(groups, tx) ==
    IF \A k \in group_keys(groups) : lineage_resolves(k, tx)
    THEN {group_keys(groups)}
    ELSE SUBSET {k \in group_keys(groups) : lineage_resolves(k, tx)}

\* lines 70-140; order: the iteration order of the grouped map
write_grouped_output(groups, map, order, handled, rt, tx) ==
    [ok |-> \A k \in group_keys(groups) : lineage_resolves(k, tx),
     header |-> order,
     rows |-> grouped_rows(groups, map, order, handled, rt)]

\* the gene maps explored: the second feature, when listed, has the one gene
GeneMaps ==
    {g \in Maps(UIDs, GeneLists) : "u2" \in DOMAIN g => g["u2"] = <<"g1">>}
TaxonMaps == Maps(UIDs, TaxonIds \ {0})
LineageMaps == Maps(UIDs, Lineages)
\* no taxonomy file (Taxonomy::default()), or one that resolves every id
Taxonomies == {{}, TaxonIds}

-----------------------------------------------------------------------------
(* config.rs                                                               *)

MaxFiles == 3            \* sample columns of the VCF file, depth files

\* sample column names of a VCF header, and depth file paths
ColumnNames == {"x.bam", "d/y.bam", ".."}
DepthFileNames == {"d1", "d2"}

SeqsUpTo(S, n) == UNION {[1..k -> S] : k \in 0..n}

\* Path::new(c).file_stem(): no stem for a name that ends in ".."
file_stem(c) ==
    CASE c = "x.bam" -> <<"x">>
      [] c = "d/y.bam" -> <<"y">>
      [] c = ".." -> <<>>

\* lines 40-45: flat_map over the column names
RECURSIVE stems(_)
stems(cols) ==
    IF cols = <<>> THEN <<>>
    ELSE file_stem(Head(cols)) \o stems(Tail(cols))

\* lines 19-27: the first n lines of the loop; an index past the end of
\* vcf_samples or depth_files panics
write_config_lines(ids, cols, files, n) ==
    IF \E i \in 1..n : i > Len(cols) \/ i > Len(files)
    THEN [panic |-> TRUE, lines |-> <<>>]
    ELSE [panic |-> FALSE,
          lines |-> [i \in 1..n |-> <<ids[i], cols[i], files[i]>>]]

ConfigInit ==
    /\ cfg_pc = "start"
    /\ ouput_file = "none"
    /\ depth_files = <<>>
    /\ vcf_samples = <<>>
    /\ sample_ids = <<>>
    /\ config_lines = <<>>
    /\ bail_msg = <<>>

CalcInit ==
    /\ cpc = "start"
    /\ gene_map = <<>>
    /\ taxon_map = <<>>
    /\ lineage_map = <<>>
    /\ taxonomy = {}
    /\ result_type = "pNpS"
    /\ calc_pnps_map = <<>>
    /\ grouped_pnps = <<>>
    /\ out_header = <<>>
    /\ out_rows = {}

Init == ParseInit /\ CalcInit /\ ConfigInit

\* lines 261-308: the map files, the taxonomy and the input file are read.
\* --taxon-map and --lineage-map exclude each other (cli.rs, group "lineage")
CalcRead ==
    /\ cpc = "start"
    /\ \E gm \in GeneMaps, tm \in TaxonMaps, lm \in LineageMaps,
          tx \in Taxonomies, rt \in ResultTypes, doc \in Documents :
          /\ tm = <<>> \/ lm = <<>>
          /\ gene_map' = gm
          /\ taxon_map' = tm
          /\ lineage_map' = lm
          /\ taxonomy' = tx
          /\ result_type' = rt
          /\ calc_pnps_map' = doc
    /\ cpc' = "loaded"
    /\ UNCHANGED <<grouped_pnps, out_header, out_rows>>
    /\ UNCHANGED <<parse_vars, config_vars>>

\* a `?` of lines 261-293: a file that cannot be opened or parsed
CalcReadError ==
    /\ cpc = "start"
    /\ cpc' = "error"
    /\ UNCHANGED <<gene_map, taxon_map, lineage_map, taxonomy, result_type,
                   calc_pnps_map, grouped_pnps, out_header, out_rows>>
    /\ UNCHANGED <<parse_vars, config_vars>>

\* lines 310-312
WriteOutput ==
    /\ cpc = "loaded"
    /\ taxon_map = <<>> /\ gene_map = <<>> /\ lineage_map = <<>>
    /\ \E order \in Perms(DOMAIN calc_pnps_map) :
          LET w == write_output(calc_pnps_map, order, result_type)
          IN  /\ out_header' = w.header
              /\ out_rows' = w.rows
    /\ cpc' = "done"
    /\ UNCHANGED <<gene_map, taxon_map, lineage_map, taxonomy, result_type,
                   calc_pnps_map, grouped_pnps>>
    /\ UNCHANGED <<parse_vars, config_vars>>

\* lines 313-321
WriteGroupedOutput ==
    /\ cpc = "loaded"
    /\ ~(taxon_map = <<>> /\ gene_map = <<>> /\ lineage_map = <<>>)
    /\ LET groups == group_pnps(calc_pnps_map, gene_map, taxon_map, lineage_map)
       IN  /\ grouped_pnps' = groups
           /\ \E order \in Perms(DOMAIN groups),
                 handled \in handled_sets(groups, taxonomy) :
                 LET w == write_grouped_output(groups, calc_pnps_map, order,
                                               handled, result_type, taxonomy)
                 IN  /\ out_header' = w.header
                     /\ out_rows' = w.rows
                     /\ cpc' = IF w.ok THEN "done" ELSE "error"
    /\ UNCHANGED <<gene_map, taxon_map, lineage_map, taxonomy, result_type,
                   calc_pnps_map>>
    /\ UNCHANGED <<parse_vars, config_vars>>

CalcNext ==
    \/ CalcRead
    \/ CalcReadError
    \/ WriteOutput
    \/ WriteGroupedOutput

CalcSpec == Init /\ [][CalcNext]_vars

-----------------------------------------------------------------------------
(* config_command                                                          *)

\* line 34: file_or_stdout creates (and truncates) the output file, or takes
\* stdout; options.depth_files comes with the options
ConfigOpenOutput ==
    /\ cfg_pc = "start"
    /\ \E files \in SeqsUpTo(DepthFileNames, MaxFiles) : depth_files' = files
    /\ \/ cfg_pc' = "opened" /\ ouput_file' \in {"stdout", "empty"}
       \/ cfg_pc' = "error" /\ ouput_file' = "none"
    /\ UNCHANGED <<vcf_samples, sample_ids, config_lines, bail_msg>>
    /\ UNCHANGED <<parse_vars, calc_vars>>

\* lines 36-45
ConfigReadVcf ==
    /\ cfg_pc = "opened"
    /\ \E cols \in SeqsUpTo(ColumnNames, MaxFiles) :
          /\ vcf_samples' = cols
          /\ sample_ids' = stems(cols)
    /\ cfg_pc' = "read"
    /\ UNCHANGED <<ouput_file, depth_files, config_lines, bail_msg>>
    /\ UNCHANGED <<parse_vars, calc_vars>>

\* line 36: VcfReader::new fails
ConfigReadVcfError ==
    /\ cfg_pc = "opened"
    /\ cfg_pc' = "error"
    /\ UNCHANGED <<ouput_file, depth_files, vcf_samples, sample_ids,
                   config_lines, bail_msg>>
    /\ UNCHANGED <<parse_vars, calc_vars>>

\* lines 47-53
ConfigBail ==
    /\ cfg_pc = "read"
    /\ Len(depth_files) # Len(sample_ids)
    /\ cfg_pc' = "bailed"
    /\ bail_msg' = <<Len(sample_ids), Len(depth_files)>>
    /\ UNCHANGED <<ouput_file, depth_files, vcf_samples, sample_ids,
                   config_lines>>
    /\ UNCHANGED <<parse_vars, calc_vars>>

\* lines 56-61, write_config_file: `done` of the writeln! calls (the header,
\* then one per sample id) succeed; the next one, if any, fails
WriteConfigFile ==
    /\ cfg_pc = "read"
    /\ Len(depth_files) = Len(sample_ids)
    /\ \E done \in 0..(Len(sample_ids) + 1) :
          LET all == done = Len(sample_ids) + 1
              w == write_config_lines(sample_ids, vcf_samples, depth_files,
                                      IF done = 0 THEN 0 ELSE done - 1)
          IN  /\ config_lines' = w.lines
              /\ cfg_pc' = IF w.panic THEN "panic"
                           ELSE IF all THEN "done" ELSE "write_error"
              /\ ouput_file' = IF ouput_file = "stdout" THEN "stdout"
                               ELSE IF w.panic \/ done = 0 THEN "empty"
                               ELSE IF all THEN "written" ELSE "partial"
    /\ UNCHANGED <<depth_files, vcf_samples, sample_ids, bail_msg>>
    /\ UNCHANGED <<parse_vars, calc_vars>>

ConfigNext ==
    \/ ConfigOpenOutput
    \/ ConfigReadVcf
    \/ ConfigReadVcfError
    \/ ConfigBail
    \/ WriteConfigFile

ConfigSpec == Init /\ [][ConfigNext]_vars

Next ==
    \/ CreateOutput
    \/ ReadInputs
    \/ ReadInputsError
    \/ PrepareAnnotations
    \/ AddDepthSampleData
    \/ DepthFileError
    \/ VcfOpenError
    \/ ReadVcfRecord
    \/ Serialize
    \/ SerializeError

Spec == Init /\ [][Next]_vars

-----------------------------------------------------------------------------
(* Properties of parse_command                                             *)

filtered(r) ==
    r.dp < min_depth \/ r.qual < min_qual \/ r.indel \/ r.ref_len > 1

counted(map) ==
    \E s \in DOMAIN map : \E u \in DOMAIN map[s] :
        map[s][u].syn + map[s][u].nonsyn > 0

absent(map, h) == h[1] \notin DOMAIN map \/ h[2] \notin DOMAIN map[h[1]]

\* C1: reading a record with depth < min_depth, or quality < min_qual, or
\* flagged indel, or with a reference longer than one base leaves every counter
\* of the table unchanged, whatever table the earlier records left and
\* whatever chrom, pos, alt and calls the record carries
C1_SkippedRecordKeepsCounters ==
    [][(count' = count + 1 /\ filtered(rec')) =>
          /\ pnps_map' = pnps_map
          /\ \A l \in LocusFields :
                 process_record(pnps_map, VcfRecord(rec', l), annotations,
                                fasta_records, sample_info) = pnps_map]_vars

\* a skipped record arrives after a record that was counted
C1_Witness ==
    /\ pc = "vcf"
    /\ count = 2
    /\ filtered(rec)
    /\ rec.dp >= min_depth /\ rec.qual >= min_qual /\ ~rec.indel
    /\ counted(pnps_map)

\* C2: during and after the variant loop the table has exactly the sample ids
\* and, per sample, the uids add_depth_sample_data returned; a record whose
\* calls all reach pairs absent from the table changes nothing
C2_KeysFixed ==
    /\ [](pc \in {"vcf", "done"} =>
            /\ DOMAIN pnps_map = DOMAIN pnps_init
            /\ DOMAIN pnps_map = {sample_info[c] : c \in DOMAIN sample_info}
            /\ \A s \in DOMAIN pnps_map : DOMAIN pnps_map[s] = DOMAIN pnps_init[s])
    /\ [][(count' = count + 1 /\
           \A h \in hits(rec', annotations, fasta_records, sample_info) :
               absent(pnps_map, h))
          => pnps_map' = pnps_map]_vars

\* a call reaches a (sample, uid) pair the coverage filter removed, in a table
\* that already holds a count
C2_Witness ==
    /\ pc = "vcf"
    /\ ~filtered(rec)
    /\ counted(pnps_map)
    /\ \E h \in hits(rec, annotations, fasta_records, sample_info) :
           h[3] # "err" /\ absent(pnps_map, h)

\* C3: every entry of the table has coverage >= the minimum coverage, before
\* and after records are classified; the threshold is >= 1; an annotation
\* whose sequence has no depth entry gets coverage 0 and is not retained
C3_CoverageAtLeastMin ==
    /\ min_cov >= 1
    /\ pc \in {"vcf", "done"} =>
           \A s \in DOMAIN pnps_map : \A u \in DOMAIN pnps_map[s] :
               pnps_map[s][u].coverage >= min_cov
    /\ pc \in {"prepared", "vcf", "done"} =>
           \A dm \in DepthFiles :
               LET t == prepare_sample_pnps(pnps_list, dm, annotations, min_cov)
               IN  /\ \A u \in DOMAIN t : t[u].coverage >= min_cov
                   /\ \A u \in DOMAIN annotations :
                          annotations[u].seq_id \notin DOMAIN dm =>
                              /\ sample_coverage(dm, annotations[u]) = 0
                              /\ u \notin DOMAIN t

\* records were classified into a table from which the filter removed a uid
C3_Witness ==
    /\ pc = "vcf"
    /\ count >= 1
    /\ counted(pnps_map)
    /\ \E s \in DOMAIN pnps_map : \E u \in DOMAIN annotations :
           u \notin DOMAIN pnps_map[s]

\* C4: for every (sample, uid) entry, syn + nonsyn is at most the number of
\* processed records inside the uid's interval that carry a call of the sample
C4_CountsBoundedByRecords ==
    pc \in {"vcf", "done"} =>
        \A s \in DOMAIN pnps_map : \A u \in DOMAIN pnps_map[s] :
            pnps_map[s][u].syn + pnps_map[s][u].nonsyn <= n_inside[s][u]

\* C5: add_depth_sample_data does not crash on a sample whose retained set is
\* empty: every sample of the config is in the table it returns
C5_EmptyRetainedSetNoCrash ==
    /\ pc # "panic"
    /\ pc \in {"vcf", "done"} =>
           DOMAIN pnps_init = {sample_info[c] : c \in DOMAIN sample_info}

\* C10: when an annotation references a sequence id absent from the sequence
\* set, prepare_annotations fails and the run ends in error: no baseline list,
\* no sample table, no record processed, nothing serialized
C10_MissingSequenceAborts ==
    (/\ pc \notin {"start", "created", "read"}
     /\ \E u \in DOMAIN annotations : annotations[u].seq_id \notin fasta_records)
    => /\ pc = "error"
       /\ pnps_list = {}
       /\ pnps_map = <<>>
       /\ pnps_init = <<>>
       /\ count = 0
       /\ out_file = "empty"

\* prepare_annotations ran on annotations one of which lacks its sequence
C10_Witness ==
    /\ pc = "error"
    /\ annotations # <<>>
    /\ \E u \in DOMAIN annotations : annotations[u].seq_id \notin fasta_records
    /\ \E u \in DOMAIN annotations : annotations[u].seq_id \in fasta_records

one_if(b) == IF b THEN 1 ELSE 0

\* C13: every iteration of the variant loop adds 1 to count and adds 1 to at
\* most one skip counter: skipped_dp when the depth is low, else skipped_qual
\* when the quality is low, else skipped_indel for an indel or a multi-base
\* reference; so count = skipped_dp + skipped_qual + skipped_indel + the
\* number of records that passed the three filters
C13_OneCounterByPriority ==
    /\ [](pc \in {"vcf", "done"} =>
            count = skipped_dp + skipped_qual + skipped_indel + n_passed)
    /\ [][(pc = "vcf" /\ pc' = "vcf") =>
            LET low_dp == rec'.dp < min_depth
                low_qual == rec'.qual < min_qual
                indel == rec'.indel \/ rec'.ref_len > 1
            IN  /\ count' = count + 1
                /\ skipped_dp' = skipped_dp + one_if(low_dp)
                /\ skipped_qual' = skipped_qual + one_if(~low_dp /\ low_qual)
                /\ skipped_indel' =
                       skipped_indel + one_if(~low_dp /\ ~low_qual /\ indel)
                /\ n_passed' =
                       n_passed + one_if(~low_dp /\ ~low_qual /\ ~indel)]_vars

\* after a record that passed, a record that fails all three filters is
\* counted under the low depth only
C13_Witness ==
    /\ pc = "vcf"
    /\ count = 2
    /\ n_passed = 1
    /\ rec.dp < min_depth /\ rec.qual < min_qual /\ rec.indel /\ rec.ref_len > 1
    /\ skipped_dp = 1 /\ skipped_qual = 0 /\ skipped_indel = 0

\* the calls of record r that belong to sample s
calls_of(r, s) ==
    {c \in r.calls : c \in DOMAIN sample_info /\ sample_info[c] = s}

\* annotation u lies on the sequence of record r and contains its position
covers(u, r) ==
    annotations[u].seq_id = r.chrom /\ contains(annotations[u], r.pos)

\* C14: a record that passes the three filters adds, to every entry (s, u)
\* whose annotation is on the record's sequence and contains its position
\* (all of them when annotations overlap), 1 per call of sample s: to syn when
\* the call classifies as synonymous, to nonsyn when it classifies as
\* nonsynonymous, to neither when classification fails; every other entry
\* keeps its counters
C14_OneIncrementPerCall ==
    [][(pc = "vcf" /\ pc' = "vcf" /\ ~filtered(rec')) =>
          \A s \in DOMAIN pnps_map : \A u \in DOMAIN pnps_map[s] :
              LET n == Cardinality(calls_of(rec', s))
                  out == IF covers(u, rec')
                         THEN is_syn(annotations[u], rec'.pos, rec'.alt)
                         ELSE "outside"
              IN  /\ pnps_map'[s][u].syn =
                         pnps_map[s][u].syn + (IF out = "syn" THEN n ELSE 0)
                  /\ pnps_map'[s][u].nonsyn =
                         pnps_map[s][u].nonsyn + (IF out = "nonsyn" THEN n ELSE 0)]_vars

\* a record inside two overlapping annotations was classified for a sample
\* that tracks both, after a record whose classification failed
C14_Witness ==
    /\ pc = "vcf"
    /\ count = 2
    /\ n_passed = 2
    /\ rec.alt = "T"
    /\ DOMAIN annotations = {"u1", "u2"}
    /\ covers("u1", rec) /\ covers("u2", rec)
    /\ \E s \in DOMAIN pnps_map :
           /\ DOMAIN pnps_map[s] = {"u1", "u2"}
           /\ calls_of(rec, s) # {}
           /\ \A u \in {"u1", "u2"} :
                  pnps_map[s][u].syn + pnps_map[s][u].nonsyn
                  = Cardinality(calls_of(rec, s))
           /\ \E u \in DOMAIN pnps_map[s] : n_inside[s][u] = 2

\* C15: during and after the variant loop every entry has the exp_syn,
\* exp_nonsyn and coverage that prepare_sample_pnps gave it; exp_syn and
\* exp_nonsyn are those of the uid's baseline record, hence equal in every
\* sample that tracks the uid
C15_ExpectedAndCoverageFixed ==
    pc \in {"vcf", "done"} =>
        \A s \in DOMAIN pnps_map : \A u \in DOMAIN pnps_map[s] :
            /\ pnps_map[s][u].exp_syn = pnps_init[s][u].exp_syn
            /\ pnps_map[s][u].exp_nonsyn = pnps_init[s][u].exp_nonsyn
            /\ pnps_map[s][u].coverage = pnps_init[s][u].coverage
            /\ pnps_map[s][u].uid = u
            /\ \E b \in pnps_list :
                   /\ b.uid = u
                   /\ pnps_map[s][u].exp_syn = b.exp_syn
                   /\ pnps_map[s][u].exp_nonsyn = b.exp_nonsyn
            /\ \A t \in DOMAIN pnps_map :
                   u \in DOMAIN pnps_map[t] =>
                       /\ pnps_map[t][u].exp_syn = pnps_map[s][u].exp_syn
                       /\ pnps_map[t][u].exp_nonsyn = pnps_map[s][u].exp_nonsyn

\* two samples track the same uid with different counts after two records
C15_Witness ==
    /\ pc = "vcf"
    /\ count = 2
    /\ DOMAIN pnps_map = {"A", "B"}
    /\ \E u \in DOMAIN pnps_map["A"] \cap DOMAIN pnps_map["B"] :
           /\ pnps_map["A"][u].syn + pnps_map["A"][u].nonsyn = 2
           /\ pnps_map["B"][u].syn + pnps_map["B"][u].nonsyn = 1

\* C11: a run that ends in a fatal error leaves no empty and no partially
\* written output file (parse_command and config_command)
C11_NoPartialOutputOnError ==
    /\ pc \in {"error", "panic"} => out_file \notin {"empty", "partial"}
    /\ cfg_pc \in {"error", "bailed", "write_error", "panic"} =>
           ouput_file \notin {"empty", "partial"}

-----------------------------------------------------------------------------
(* Properties of config_command                                            *)

\* C12: once the count check has run, config_command has failed with the
\* message naming both counts if and only if the number of depth files differs
\* from the number of sample columns of the VCF file, and then no config line
\* is written; when it succeeds, line i holds the sample id of the i-th
\* column, the i-th column name and the i-th depth file; no index is out of
\* range
C12_BailIffCountsDiffer ==
    /\ cfg_pc \in {"bailed", "done", "write_error", "panic"} =>
           (cfg_pc = "bailed" <=> Len(depth_files) # Len(vcf_samples))
    /\ cfg_pc = "bailed" =>
           /\ bail_msg = <<Len(vcf_samples), Len(depth_files)>>
           /\ config_lines = <<>>
    /\ cfg_pc = "done" =>
           /\ Len(config_lines) = Len(vcf_samples)
           /\ \A i \in DOMAIN config_lines :
                  config_lines[i] = file_stem(vcf_samples[i])
                                    \o <<vcf_samples[i], depth_files[i]>>
    /\ cfg_pc # "panic"

-----------------------------------------------------------------------------
(* Properties of calc_command                                              *)

ungrouped == taxon_map = <<>> /\ gene_map = <<>> /\ lineage_map = <<>>

written == cpc \in {"done", "error"} /\ calc_pnps_map # <<>>

row_of(k) == {r \in out_rows : r.key = k}

\* the cells of the samples without a record for the row's key hold NaN, and
\* the row has one cell per sample
cells_complete(r, has_record(_)) ==
    /\ Len(r.cells) = Cardinality(DOMAIN calc_pnps_map)
    /\ Len(out_header) = Len(r.cells)
    /\ \A i \in DOMAIN r.cells :
           ~has_record(out_header[i]) => r.cells[i] = f64_to_string(NaN)

\* C6: once a writer has run, a row for key k is in the output if and only if
\* k occurs in some sample's table and some sample's selected value for k is
\* normal; a row has one cell per sample, NaN where the sample has no record
C6_RowIffNormalValue ==
    written =>
        IF ungrouped
        THEN \A u \in UIDs :
               /\ row_of(<<to_string(u)>>) # {} <=>
                      \E s \in DOMAIN calc_pnps_map :
                          /\ u \in DOMAIN calc_pnps_map[s]
                          /\ is_normal(selected(calc_pnps_map[s][u], result_type))
               /\ \A r \in row_of(<<to_string(u)>>) :
                      LET has(s) == u \in DOMAIN calc_pnps_map[s]
                      IN  cells_complete(r, has)
        ELSE \A k \in group_keys(grouped_pnps) :
               /\ row_of(k) # {} <=>
                      \E s \in DOMAIN grouped_pnps :
                          /\ k \in DOMAIN grouped_pnps[s]
                          /\ is_normal(group_selected(grouped_pnps[s][k],
                                           calc_pnps_map[s], result_type))
               /\ \A r \in row_of(k) :
                      LET has(s) == k \in DOMAIN grouped_pnps[s]
                      IN  cells_complete(r, has)

\* the two keys of uid for the gene ids at positions i and j of its list
key_of(uid, i) ==
    <<gene_map[uid][i], taxon_id(uid, taxon_map), taxon_lineage(uid, lineage_map)>>

tracked(uid) == \E s \in DOMAIN calc_pnps_map : uid \in DOMAIN calc_pnps_map[s]

\* both groups exist in sample s and hold the record of uid
both_hold(s, uid, i, j) ==
    /\ key_of(uid, i) \in DOMAIN grouped_pnps[s]
    /\ key_of(uid, j) \in DOMAIN grouped_pnps[s]
    /\ uid \in DOMAIN grouped_pnps[s][key_of(uid, i)].pnps
    /\ uid \in DOMAIN grouped_pnps[s][key_of(uid, j)].pnps

\* the rows of the two keys have the same cell values
same_cells(uid, i, j) ==
    cells_of(group_values(grouped_pnps, calc_pnps_map, out_header,
                          key_of(uid, i), result_type))
    = cells_of(group_values(grouped_pnps, calc_pnps_map, out_header,
                            key_of(uid, j), result_type))

\* every other uid of every sample that shares uid's taxon id and lineage is
\* listed under the two gene ids equally often
others_balanced(uid, i, j) ==
    \A s \in DOMAIN calc_pnps_map : \A o \in DOMAIN calc_pnps_map[s] \ {uid} :
        pushes(o, key_of(uid, i), gene_map, taxon_map, lineage_map)
        = pushes(o, key_of(uid, j), gene_map, taxon_map, lineage_map)

grouped_ran == cpc \in {"done", "error"} /\ calc_pnps_map # <<>> /\ ~ungrouped

C8_EmptyMapsGroupPerUid ==
    (cpc = "done" /\ ungrouped) =>
        LET g == group_pnps(calc_pnps_map, gene_map, taxon_map, lineage_map)
            key(u) == <<to_string(u), 0, "">>
        IN  /\ DOMAIN g = DOMAIN calc_pnps_map
            /\ \A u, v \in UIDs : key(u) = key(v) => u = v
            /\ \A s \in DOMAIN g :
                   /\ DOMAIN g[s] = {key(u) : u \in DOMAIN calc_pnps_map[s]}
                   /\ \A u \in DOMAIN calc_pnps_map[s] :
                          /\ g[s][key(u)].pnps = [x \in {u} |-> 1]
                          /\ g[s][key(u)].gene_id = to_string(u)
                          /\ g[s][key(u)].taxon_id = 0
                          /\ g[s][key(u)].taxon_lineage = ""
                          /\ group_selected(g[s][key(u)], calc_pnps_map[s],
                                            result_type)
                             = selected(calc_pnps_map[s][u], result_type)
            /\ {<<k[1], cells_of(group_values(g, calc_pnps_map, out_header, k,
                                              result_type))>> :
                   k \in {x \in group_keys(g) :
                             row_kept(group_values(g, calc_pnps_map, out_header,
                                                   x, result_type))}}
               = {<<r.key[1], r.cells>> : r \in out_rows}

\* the ungrouped writer wrote one row and dropped another, for two samples
C8_Witness ==
    /\ cpc = "done"
    /\ ungrouped
    /\ DOMAIN calc_pnps_map = {"A", "B"}
    /\ Cardinality(out_rows) = 1
    /\ \E s \in DOMAIN calc_pnps_map : DOMAIN calc_pnps_map[s] = {"u1", "u2"}

\* C9: the sample columns of the header are in the order of the samples in
\* the input document, and the i-th cell of every row is the value of the
\* sample named in the i-th column
C9_ColumnsInDocumentOrder ==
    (cpc = "done" /\ calc_pnps_map # <<>>) =>
        /\ out_header = document_order(calc_pnps_map)
        /\ \A r \in out_rows : \A i \in DOMAIN r.cells :
               r.cells[i] =
                   IF ungrouped
                   THEN cells_of(uid_values(calc_pnps_map, out_header,
                            CHOOSE u \in UIDs : r.key = <<to_string(u)>>,
                            result_type))[i]
                   ELSE cells_of(group_values(grouped_pnps, calc_pnps_map,
                            out_header, r.key, result_type))[i]

\* C16: after group_pnps every group of every sample holds each record of
\* the sample at most once, whatever the gene map
C16_MemberAtMostOnce ==
    grouped_ran =>
        \A s \in DOMAIN grouped_pnps : \A k \in DOMAIN grouped_pnps[s] :
            \A u \in DOMAIN grouped_pnps[s][k].pnps :
                grouped_pnps[s][k].pnps[u] <= 1

=============================================================================
